---------------------------- MODULE Spec2Model ----------------------------
(***************************************************************************)
(* Model of the synthetic user simulator: the flow parser of app.py, the   *)
(* step decision procedure, the flow traversal and the aggregator of       *)
(* simulator.py, and the "Generate personas and simulate" handler that     *)
(* drives them.                                                            *)
(*                                                                         *)
(* Python strings that the code takes apart (the flow text, a friction     *)
(* value given as a string) are sequences of one-character strings.        *)
(* Strings that the code only stores and compares (an action) are TLA+     *)
(* strings.  A character that TLA+ cannot write in a string is named by    *)
(* its code point: "U+000B" is the one character "\v".                     *)
(* An Optional value is a sequence of length 0 (None) or 1.                *)
(* A JSON integer is its literal, the characters of the response text,    *)
(* since json.loads has yet to convert it.                                 *)
(* A float quotient a / b is the pair [num |-> a, den |-> b].              *)
(***************************************************************************)
EXTENDS Integers, Sequences, FiniteSets

VARIABLES
    pc,            \* where the script is: see the actions
    api_key,       \* os.getenv("OPENAI_API_KEY") is set
    flow_text,     \* the text area's content
    steps,         \* st.session_state.steps
    personas,      \* app.py `personas`
    p,             \* position of the loop `for p in personas` (1-based)
    i,             \* position of the loop `for step in steps` (1-based)
    events,        \* simulate_persona_through_flow: `events`
    drop_step_id,  \* simulate_persona_through_flow: `drop_step_id` (Optional)
    runs,          \* app.py `runs`
    summary,       \* app.py `summary` (Optional: <<>> until computed)
    requests,      \* history: the external requests issued by this simulate action
    content,       \* the model response handed to one simulate_step call
    outcome        \* what that simulate_step call did (Optional)

vars == <<pc, api_key, flow_text, steps, personas, p, i, events, drop_step_id,
          runs, summary, requests, content, outcome>>

-----------------------------------------------------------------------------
(* Bounds of the model.                                                    *)

MaxTextLen == 6        \* characters typed into the text area (SpecParse)
MaxSteps == 2          \* steps of a flow (Spec, SpecLib, SpecRun)
MaxPersonas == 2       \* personas of a batch (Spec, SpecLib)
RawFrictionSpan == 15  \* raw integer frictions range over -Span .. Span (SpecStep, SpecRun)

-----------------------------------------------------------------------------
(* Python string primitives, on sequences of characters.                   *)

\* the characters c with c.isspace(): what str.strip() removes
Whitespace ==
    {" ", "\t", "\n", "\r", "\f", "U+000B", "U+001C", "U+001D", "U+001E", "U+001F",
     "U+0085", "U+00A0", "U+1680", "U+2000", "U+2001", "U+2002", "U+2003", "U+2004",
     "U+2005", "U+2006", "U+2007", "U+2008", "U+2009", "U+200A", "U+2028", "U+2029",
     "U+202F", "U+205F", "U+3000"}

DigitChars == <<"0", "1", "2", "3", "4", "5", "6", "7", "8", "9">>

\* str(n) for n >= 0, as used by the f-strings.
RECURSIVE Digits(_)
Digits(n) ==
    IF n < 10 THEN <<DigitChars[n + 1]>>
    ELSE Digits(n \div 10) \o <<DigitChars[(n % 10) + 1]>>

RECURSIVE LStrip(_, _)
LStrip(s, cs) ==
    IF s = <<>> THEN s
    ELSE IF Head(s) \in cs THEN LStrip(Tail(s), cs) ELSE s

RECURSIVE RStrip(_, _)
RStrip(s, cs) ==
    IF s = <<>> THEN s
    ELSE IF s[Len(s)] \in cs THEN RStrip(SubSeq(s, 1, Len(s) - 1), cs) ELSE s

\* s.strip(cs): the characters of cs removed from both ends.
Strip(s, cs) == RStrip(LStrip(s, cs), cs)

\* s.find(sub) + 1: the first position where sub occurs in s, 0 when none.
Find(s, sub) ==
    LET hits == {k \in 1..(Len(s) - Len(sub) + 1) :
                    SubSeq(s, k, k + Len(sub) - 1) = sub}
    IN  IF hits = {} THEN 0 ELSE CHOOSE k \in hits : \A j \in hits : k <= j

\* s.split(c) for a one-character separator c.
RECURSIVE Split(_, _)
Split(s, c) ==
    LET k == Find(s, <<c>>)
    IN  IF k = 0 THEN <<s>>
        ELSE <<SubSeq(s, 1, k - 1)>> \o Split(SubSeq(s, k + 1, Len(s)), c)

\* s.split(sep, 1) when sep occurs in s.
SplitOnce(s, sep) ==
    LET k == Find(s, sep)
    IN  <<SubSeq(s, 1, k - 1), SubSeq(s, k + Len(sep), Len(s))>>

-----------------------------------------------------------------------------
(* app.py: parse_flow.                                                     *)

Separator == <<" ", "-", " ">>

NumberingChars == {"0", "1", "2", "3", "4", "5", "6", "7", "8", "9", ".", " "}

\* f"Step {i+1}" for the 0-based position i.
StepLabel(pos) == <<"S", "t", "e", "p", " ">> \o Digits(pos + 1)

\* lines = [l.strip() for l in text.split("\n") if l.strip()]
RECURSIVE StrippedNonBlank(_)
StrippedNonBlank(ls) ==
    IF ls = <<>> THEN <<>>
    ELSE LET l == Strip(Head(ls), Whitespace)
         IN  (IF l = <<>> THEN <<>> ELSE <<l>>) \o StrippedNonBlank(Tail(ls))

FlowLines(text) == StrippedNonBlank(Split(text, "\n"))

\* the body of the loop `for i, line in enumerate(lines)`
ParseLine(pos, line) ==
    LET hasSep == Find(line, Separator) # 0
        parts == IF hasSep THEN SplitOnce(line, Separator)
                 ELSE <<StepLabel(pos), line>>
        name == Strip(Strip(parts[1], NumberingChars), Whitespace)
        desc == Strip(parts[2], Whitespace)
    IN  [id |-> pos,
         name |-> IF name # <<>> THEN name ELSE StepLabel(pos),
         description |-> desc,
         type |-> "decision"]

parse_flow(text) ==
    LET lines == FlowLines(text)
    IN  [k \in 1..Len(lines) |-> ParseLine(k - 1, lines[k])]

-----------------------------------------------------------------------------
(* JSON payloads.  A dict is a record of Optionals (<<>>: the key is       *)
(* missing); a value that int() is applied to carries its JSON type.       *)

Get(opt, default) == IF opt = <<>> THEN default ELSE opt[1]

\* the integer literal of text s: an optional "-", then ASCII digits
IntLit(s) == [t |-> "int", n |-> 0, s |-> s]
\* the literal of the integer n
IntV(n) == IntLit(IF n < 0 THEN <<"-">> \o Digits(0 - n) ELSE Digits(n))
FloatV(tenths) == [t |-> "float", n |-> tenths, s |-> <<>>]  \* the float n / 10
NaNV == [t |-> "nan", n |-> 0, s |-> <<>>]    \* NaN
InfV == [t |-> "inf", n |-> 0, s |-> <<>>]    \* Infinity, -Infinity, 1e999
StrV(s) == [t |-> "str", n |-> 0, s |-> s]
BoolV(b) == [t |-> "bool", n |-> IF b THEN 1 ELSE 0, s |-> <<>>]
NullV == [t |-> "null", n |-> 0, s |-> <<>>]
ListV == [t |-> "list", n |-> 0, s |-> <<>>]  \* an array or an object

Return(v) == [ok |-> TRUE, error |-> "", value |-> <<v>>]
Raise(e) == [ok |-> FALSE, error |-> e, value |-> <<>>]

\* A value the code iterates over (the "personas" member, a persona's traits
\* and tendencies) carries its JSON type and what iterating it yields: the
\* items of an array, the characters of a string, the keys of an object.
Iter(t, items) == [t |-> t, items |-> items]
ListOf(items) == Iter("list", items)
CharsOf(s) == Iter("str", [k \in 1..Len(s) |-> StrV(<<s[k]>>)])
KeysOf(keys) == Iter("dict", [k \in 1..Len(keys) |-> StrV(keys[k])])
\* null, a number, true or false: iter() raises TypeError
NotIterable(t) == Iter(t, <<>>)

IterableTypes == {"list", "str", "dict"}

\* the strings xs with sep between them
RECURSIVE Joined(_, _)
Joined(sep, xs) ==
    IF xs = <<>> THEN <<>>
    ELSE IF Len(xs) = 1 THEN xs[1].s
    ELSE Joined(sep, SubSeq(xs, 1, Len(xs) - 1)) \o sep \o xs[Len(xs)].s

\* sep.join(v): TypeError for what cannot be iterated and for an item that is
\* no str
Join(sep, v) ==
    IF v.t \notin IterableTypes THEN Raise("TypeError")
    ELSE IF \E k \in 1..Len(v.items) : v.items[k].t # "str" THEN Raise("TypeError")
    ELSE Return(Joined(sep, v.items))

\* the whitespace int() removes: the information separators are not part of it
IntWhitespace == Whitespace \ {"U+001C", "U+001D", "U+001E", "U+001F"}

\* The decimal digits (Unicode category Nd), a row of 0..9 per script: int()
\* takes the digits of all 66 rows alike.
DigitRows ==
    <<DigitChars,
      <<"U+0660", "U+0661", "U+0662", "U+0663", "U+0664",
        "U+0665", "U+0666", "U+0667", "U+0668", "U+0669">>,
      <<"U+06F0", "U+06F1", "U+06F2", "U+06F3", "U+06F4",
        "U+06F5", "U+06F6", "U+06F7", "U+06F8", "U+06F9">>,
      <<"U+07C0", "U+07C1", "U+07C2", "U+07C3", "U+07C4",
        "U+07C5", "U+07C6", "U+07C7", "U+07C8", "U+07C9">>,
      <<"U+0966", "U+0967", "U+0968", "U+0969", "U+096A",
        "U+096B", "U+096C", "U+096D", "U+096E", "U+096F">>,
      <<"U+09E6", "U+09E7", "U+09E8", "U+09E9", "U+09EA",
        "U+09EB", "U+09EC", "U+09ED", "U+09EE", "U+09EF">>,
      <<"U+0A66", "U+0A67", "U+0A68", "U+0A69", "U+0A6A",
        "U+0A6B", "U+0A6C", "U+0A6D", "U+0A6E", "U+0A6F">>,
      <<"U+0AE6", "U+0AE7", "U+0AE8", "U+0AE9", "U+0AEA",
        "U+0AEB", "U+0AEC", "U+0AED", "U+0AEE", "U+0AEF">>,
      <<"U+0B66", "U+0B67", "U+0B68", "U+0B69", "U+0B6A",
        "U+0B6B", "U+0B6C", "U+0B6D", "U+0B6E", "U+0B6F">>,
      <<"U+0BE6", "U+0BE7", "U+0BE8", "U+0BE9", "U+0BEA",
        "U+0BEB", "U+0BEC", "U+0BED", "U+0BEE", "U+0BEF">>,
      <<"U+0C66", "U+0C67", "U+0C68", "U+0C69", "U+0C6A",
        "U+0C6B", "U+0C6C", "U+0C6D", "U+0C6E", "U+0C6F">>,
      <<"U+0CE6", "U+0CE7", "U+0CE8", "U+0CE9", "U+0CEA",
        "U+0CEB", "U+0CEC", "U+0CED", "U+0CEE", "U+0CEF">>,
      <<"U+0D66", "U+0D67", "U+0D68", "U+0D69", "U+0D6A",
        "U+0D6B", "U+0D6C", "U+0D6D", "U+0D6E", "U+0D6F">>,
      <<"U+0DE6", "U+0DE7", "U+0DE8", "U+0DE9", "U+0DEA",
        "U+0DEB", "U+0DEC", "U+0DED", "U+0DEE", "U+0DEF">>,
      <<"U+0E50", "U+0E51", "U+0E52", "U+0E53", "U+0E54",
        "U+0E55", "U+0E56", "U+0E57", "U+0E58", "U+0E59">>,
      <<"U+0ED0", "U+0ED1", "U+0ED2", "U+0ED3", "U+0ED4",
        "U+0ED5", "U+0ED6", "U+0ED7", "U+0ED8", "U+0ED9">>,
      <<"U+0F20", "U+0F21", "U+0F22", "U+0F23", "U+0F24",
        "U+0F25", "U+0F26", "U+0F27", "U+0F28", "U+0F29">>,
      <<"U+1040", "U+1041", "U+1042", "U+1043", "U+1044",
        "U+1045", "U+1046", "U+1047", "U+1048", "U+1049">>,
      <<"U+1090", "U+1091", "U+1092", "U+1093", "U+1094",
        "U+1095", "U+1096", "U+1097", "U+1098", "U+1099">>,
      <<"U+17E0", "U+17E1", "U+17E2", "U+17E3", "U+17E4",
        "U+17E5", "U+17E6", "U+17E7", "U+17E8", "U+17E9">>,
      <<"U+1810", "U+1811", "U+1812", "U+1813", "U+1814",
        "U+1815", "U+1816", "U+1817", "U+1818", "U+1819">>,
      <<"U+1946", "U+1947", "U+1948", "U+1949", "U+194A",
        "U+194B", "U+194C", "U+194D", "U+194E", "U+194F">>,
      <<"U+19D0", "U+19D1", "U+19D2", "U+19D3", "U+19D4",
        "U+19D5", "U+19D6", "U+19D7", "U+19D8", "U+19D9">>,
      <<"U+1A80", "U+1A81", "U+1A82", "U+1A83", "U+1A84",
        "U+1A85", "U+1A86", "U+1A87", "U+1A88", "U+1A89">>,
      <<"U+1A90", "U+1A91", "U+1A92", "U+1A93", "U+1A94",
        "U+1A95", "U+1A96", "U+1A97", "U+1A98", "U+1A99">>,
      <<"U+1B50", "U+1B51", "U+1B52", "U+1B53", "U+1B54",
        "U+1B55", "U+1B56", "U+1B57", "U+1B58", "U+1B59">>,
      <<"U+1BB0", "U+1BB1", "U+1BB2", "U+1BB3", "U+1BB4",
        "U+1BB5", "U+1BB6", "U+1BB7", "U+1BB8", "U+1BB9">>,
      <<"U+1C40", "U+1C41", "U+1C42", "U+1C43", "U+1C44",
        "U+1C45", "U+1C46", "U+1C47", "U+1C48", "U+1C49">>,
      <<"U+1C50", "U+1C51", "U+1C52", "U+1C53", "U+1C54",
        "U+1C55", "U+1C56", "U+1C57", "U+1C58", "U+1C59">>,
      <<"U+A620", "U+A621", "U+A622", "U+A623", "U+A624",
        "U+A625", "U+A626", "U+A627", "U+A628", "U+A629">>,
      <<"U+A8D0", "U+A8D1", "U+A8D2", "U+A8D3", "U+A8D4",
        "U+A8D5", "U+A8D6", "U+A8D7", "U+A8D8", "U+A8D9">>,
      <<"U+A900", "U+A901", "U+A902", "U+A903", "U+A904",
        "U+A905", "U+A906", "U+A907", "U+A908", "U+A909">>,
      <<"U+A9D0", "U+A9D1", "U+A9D2", "U+A9D3", "U+A9D4",
        "U+A9D5", "U+A9D6", "U+A9D7", "U+A9D8", "U+A9D9">>,
      <<"U+A9F0", "U+A9F1", "U+A9F2", "U+A9F3", "U+A9F4",
        "U+A9F5", "U+A9F6", "U+A9F7", "U+A9F8", "U+A9F9">>,
      <<"U+AA50", "U+AA51", "U+AA52", "U+AA53", "U+AA54",
        "U+AA55", "U+AA56", "U+AA57", "U+AA58", "U+AA59">>,
      <<"U+ABF0", "U+ABF1", "U+ABF2", "U+ABF3", "U+ABF4",
        "U+ABF5", "U+ABF6", "U+ABF7", "U+ABF8", "U+ABF9">>,
      <<"U+FF10", "U+FF11", "U+FF12", "U+FF13", "U+FF14",
        "U+FF15", "U+FF16", "U+FF17", "U+FF18", "U+FF19">>,
      <<"U+104A0", "U+104A1", "U+104A2", "U+104A3", "U+104A4",
        "U+104A5", "U+104A6", "U+104A7", "U+104A8", "U+104A9">>,
      <<"U+10D30", "U+10D31", "U+10D32", "U+10D33", "U+10D34",
        "U+10D35", "U+10D36", "U+10D37", "U+10D38", "U+10D39">>,
      <<"U+11066", "U+11067", "U+11068", "U+11069", "U+1106A",
        "U+1106B", "U+1106C", "U+1106D", "U+1106E", "U+1106F">>,
      <<"U+110F0", "U+110F1", "U+110F2", "U+110F3", "U+110F4",
        "U+110F5", "U+110F6", "U+110F7", "U+110F8", "U+110F9">>,
      <<"U+11136", "U+11137", "U+11138", "U+11139", "U+1113A",
        "U+1113B", "U+1113C", "U+1113D", "U+1113E", "U+1113F">>,
      <<"U+111D0", "U+111D1", "U+111D2", "U+111D3", "U+111D4",
        "U+111D5", "U+111D6", "U+111D7", "U+111D8", "U+111D9">>,
      <<"U+112F0", "U+112F1", "U+112F2", "U+112F3", "U+112F4",
        "U+112F5", "U+112F6", "U+112F7", "U+112F8", "U+112F9">>,
      <<"U+11450", "U+11451", "U+11452", "U+11453", "U+11454",
        "U+11455", "U+11456", "U+11457", "U+11458", "U+11459">>,
      <<"U+114D0", "U+114D1", "U+114D2", "U+114D3", "U+114D4",
        "U+114D5", "U+114D6", "U+114D7", "U+114D8", "U+114D9">>,
      <<"U+11650", "U+11651", "U+11652", "U+11653", "U+11654",
        "U+11655", "U+11656", "U+11657", "U+11658", "U+11659">>,
      <<"U+116C0", "U+116C1", "U+116C2", "U+116C3", "U+116C4",
        "U+116C5", "U+116C6", "U+116C7", "U+116C8", "U+116C9">>,
      <<"U+11730", "U+11731", "U+11732", "U+11733", "U+11734",
        "U+11735", "U+11736", "U+11737", "U+11738", "U+11739">>,
      <<"U+118E0", "U+118E1", "U+118E2", "U+118E3", "U+118E4",
        "U+118E5", "U+118E6", "U+118E7", "U+118E8", "U+118E9">>,
      <<"U+11950", "U+11951", "U+11952", "U+11953", "U+11954",
        "U+11955", "U+11956", "U+11957", "U+11958", "U+11959">>,
      <<"U+11C50", "U+11C51", "U+11C52", "U+11C53", "U+11C54",
        "U+11C55", "U+11C56", "U+11C57", "U+11C58", "U+11C59">>,
      <<"U+11D50", "U+11D51", "U+11D52", "U+11D53", "U+11D54",
        "U+11D55", "U+11D56", "U+11D57", "U+11D58", "U+11D59">>,
      <<"U+11DA0", "U+11DA1", "U+11DA2", "U+11DA3", "U+11DA4",
        "U+11DA5", "U+11DA6", "U+11DA7", "U+11DA8", "U+11DA9">>,
      <<"U+16A60", "U+16A61", "U+16A62", "U+16A63", "U+16A64",
        "U+16A65", "U+16A66", "U+16A67", "U+16A68", "U+16A69">>,
      <<"U+16AC0", "U+16AC1", "U+16AC2", "U+16AC3", "U+16AC4",
        "U+16AC5", "U+16AC6", "U+16AC7", "U+16AC8", "U+16AC9">>,
      <<"U+16B50", "U+16B51", "U+16B52", "U+16B53", "U+16B54",
        "U+16B55", "U+16B56", "U+16B57", "U+16B58", "U+16B59">>,
      <<"U+1D7CE", "U+1D7CF", "U+1D7D0", "U+1D7D1", "U+1D7D2",
        "U+1D7D3", "U+1D7D4", "U+1D7D5", "U+1D7D6", "U+1D7D7">>,
      <<"U+1D7D8", "U+1D7D9", "U+1D7DA", "U+1D7DB", "U+1D7DC",
        "U+1D7DD", "U+1D7DE", "U+1D7DF", "U+1D7E0", "U+1D7E1">>,
      <<"U+1D7E2", "U+1D7E3", "U+1D7E4", "U+1D7E5", "U+1D7E6",
        "U+1D7E7", "U+1D7E8", "U+1D7E9", "U+1D7EA", "U+1D7EB">>,
      <<"U+1D7EC", "U+1D7ED", "U+1D7EE", "U+1D7EF", "U+1D7F0",
        "U+1D7F1", "U+1D7F2", "U+1D7F3", "U+1D7F4", "U+1D7F5">>,
      <<"U+1D7F6", "U+1D7F7", "U+1D7F8", "U+1D7F9", "U+1D7FA",
        "U+1D7FB", "U+1D7FC", "U+1D7FD", "U+1D7FE", "U+1D7FF">>,
      <<"U+1E140", "U+1E141", "U+1E142", "U+1E143", "U+1E144",
        "U+1E145", "U+1E146", "U+1E147", "U+1E148", "U+1E149">>,
      <<"U+1E2F0", "U+1E2F1", "U+1E2F2", "U+1E2F3", "U+1E2F4",
        "U+1E2F5", "U+1E2F6", "U+1E2F7", "U+1E2F8", "U+1E2F9">>,
      <<"U+1E950", "U+1E951", "U+1E952", "U+1E953", "U+1E954",
        "U+1E955", "U+1E956", "U+1E957", "U+1E958", "U+1E959">>,
      <<"U+1FBF0", "U+1FBF1", "U+1FBF2", "U+1FBF3", "U+1FBF4",
        "U+1FBF5", "U+1FBF6", "U+1FBF7", "U+1FBF8", "U+1FBF9">>>>

\* the characters c that int() takes for a digit
DecimalDigits == {DigitRows[row][d] : row \in 1..Len(DigitRows), d \in 1..10}

IsDigit(c) == c \in DecimalDigits

DigitValue(c) == CHOOSE d \in 0..9 : \E row \in 1..Len(DigitRows) : DigitRows[row][d + 1] = c

\* the value of digits and underscores, the underscores skipped
RECURSIVE DecimalValue(_)
DecimalValue(ds) ==
    IF ds = <<>> THEN 0
    ELSE IF ds[Len(ds)] = "_" THEN DecimalValue(SubSeq(ds, 1, Len(ds) - 1))
    ELSE 10 * DecimalValue(SubSeq(ds, 1, Len(ds) - 1)) + DigitValue(ds[Len(ds)])

\* sys.get_int_max_str_digits(): int() refuses a longer string of digits
MaxStrDigits == 4300

\* int(s) for a str: surrounding whitespace, an optional sign, then decimal
\* digits with single underscores between them, at most MaxStrDigits digits.
IntOfStr(s) ==
    LET t == Strip(s, IntWhitespace)
        signed == t # <<>> /\ Head(t) \in {"+", "-"}
        ds == IF signed THEN Tail(t) ELSE t
        isNumber == /\ ds # <<>>
                    /\ IsDigit(ds[1]) /\ IsDigit(ds[Len(ds)])
                    /\ \A k \in 1..Len(ds) : IsDigit(ds[k]) \/ ds[k] = "_"
                    /\ \A k \in 1..(Len(ds) - 1) : ~(ds[k] = "_" /\ ds[k + 1] = "_")
        digits == Cardinality({k \in 1..Len(ds) : ds[k] # "_"})
    IN  IF digits > MaxStrDigits \/ ~isNumber THEN Raise("ValueError")
        ELSE IF signed /\ Head(t) = "-" THEN Return(0 - DecimalValue(ds))
        ELSE Return(DecimalValue(ds))

\* Python's int(v) on a value of the dict json.loads returned (an integer is
\* the int of its literal).
PyInt(v) ==
    CASE v.t = "int" -> IntOfStr(v.s)
      [] v.t = "bool" -> Return(v.n)
      [] v.t = "float" -> Return(IF v.n >= 0 THEN v.n \div 10 ELSE 0 - ((0 - v.n) \div 10))
      [] v.t = "nan" -> Raise("ValueError")
      [] v.t = "inf" -> Raise("OverflowError")
      [] v.t = "str" -> IntOfStr(v.s)
      [] OTHER -> Raise("TypeError")

-----------------------------------------------------------------------------
(* simulator.py: get_client, generate_personas, simulate_step.             *)

\* What a request comes back with.  RequestFails: the request itself raises
\* (client.chat.completions.create) and there is no response.  Otherwise the
\* response's content, by the text content[start:end] from its first "{" to
\* its last "}" and by what stops the scanner of json.loads:
\*   Json(d)              nothing: the text is the JSON object d;
\*   Malformed(before)    a syntax error (a text without a brace is empty);
\*   TooDeepAfter(before) a nesting further than the interpreter's recursion
\*                        limit lets the scanner descend.
\* `before` is an Optional value, one the scanner has converted by the time
\* it stops.  `extra` is a member of the object that the code never reads.
RequestFails == [form |-> "raised", data |-> <<[extra |-> <<>>]>>]
Malformed(before) == [form |-> "malformed", data |-> <<[extra |-> before]>>]
TooDeepAfter(before) == [form |-> "too_deep", data |-> <<[extra |-> before]>>]
Json(d) == [form |-> "object", data |-> <<d>>]
Unparseable == Malformed(<<>>)
TooDeep == TooDeepAfter(<<>>)

\* the items of an Optional value that is iterated
ItemsOf(opt) == IF opt = <<>> THEN {} ELSE {opt[1].items[k] : k \in 1..Len(opt[1].items)}

\* the values of the text d whose literals the scanner converts
Members(d) ==
    (IF "friction" \in DOMAIN d /\ d.friction # <<>> THEN {d.friction[1]} ELSE {})
        \cup (IF d.extra # <<>> THEN {d.extra[1]} ELSE {})
        \cup (IF "personas" \in DOMAIN d
              THEN UNION {ItemsOf(item.traits) \cup ItemsOf(item.tendencies) :
                             item \in ItemsOf(d.personas)}
              ELSE {})

\* json.loads(content[start:end]): the dict, or the ValueError of int() for an
\* integer literal of more than MaxStrDigits digits, which the scanner
\* converts where it meets it, JSONDecodeError for a syntax error and
\* RecursionError for too deep a nesting.
json_loads(resp) ==
    IF \E v \in Members(resp.data[1]) : v.t = "int" /\ ~IntOfStr(v.s).ok
    THEN Raise("ValueError")
    ELSE IF resp.form = "malformed" THEN Raise("JSONDecodeError")
    ELSE IF resp.form = "too_deep" THEN Raise("RecursionError")
    ELSE Return(resp.data[1])

\* get_client() returns a client (it raises RuntimeError otherwise)
get_client == api_key

\* client.chat.completions.create(...): the response, or the error of the
\* client library (openai.APIError and its subclasses)
Create(resp) == IF resp.form = "raised" THEN Raise("APIError") ELSE Return(resp)

\* f"Persona {i+1}" for the 0-based position i.
PersonaLabel(pos) == <<"P", "e", "r", "s", "o", "n", "a", " ">> \o Digits(pos + 1)

\* lines 82-99: the personas of a response's content.  An item of "personas"
\* is a dict, [t |-> "dict"] with its four keys as Optionals, or a value of
\* another type t, on which p.get raises AttributeError.
PersonasFromContent(resp) ==
    LET data == json_loads(resp)
    IN  IF ~data.ok THEN data
        ELSE LET ps == Get(data.value[1].personas, ListOf(<<>>))
             IN  IF ps.t \notin IterableTypes THEN Raise("TypeError")
                 ELSE IF \E k \in 1..Len(ps.items) : ps.items[k].t # "dict"
                      THEN Raise("AttributeError")
                 ELSE Return([k \in 1..Len(ps.items) |->
                                 [id |-> k - 1,
                                  name |-> Get(ps.items[k].name, PersonaLabel(k - 1)),
                                  bio |-> Get(ps.items[k].bio, ""),
                                  traits |-> Get(ps.items[k].traits, ListOf(<<>>)),
                                  tendencies |-> Get(ps.items[k].tendencies, ListOf(<<>>))]])

generate_personas(flow_description, num_personas, resp) ==
    IF ~get_client THEN Raise("RuntimeError")
    ELSE LET created == Create(resp)
         IN  IF ~created.ok THEN created ELSE PersonasFromContent(created.value[1])

\* friction = max(1, min(10, friction))
Min(a, b) == IF a <= b THEN a ELSE b
Max(a, b) == IF a >= b THEN a ELSE b
\* the clamp without its upper end
Clamp_lower_only(friction) == Max(1, friction)
Clamp(friction) == Max(1, Min(10, friction))

\* the default of the friction field taken as 0
RawFriction_default_zero(data) == PyInt(Get(data.friction, IntV(0)))

\* int(data.get("friction", 5))
RawFriction(data) == PyInt(Get(data.friction, IntV(5)))

\* lines 136-151: the StepEvent of a response's content
EventFromContent(step, resp) ==
    LET loaded == json_loads(resp)
    IN  IF ~loaded.ok THEN loaded
        ELSE LET data == loaded.value[1]
                 action == Get(data.action, "continue")
                 friction == RawFriction(data)
                 reasoning == Get(data.reasoning, "")
             IN  IF ~friction.ok THEN friction
                 ELSE Return([step_id |-> step.id,
                              action |-> action,
                              friction |-> Clamp(friction.value[1]),
                              reasoning |-> reasoning])

\* lines 108-127: the parts of user_prompt that are computed, the joined
\* traits and tendencies (the f-string formats every name and bio)
StepPrompt(persona, step) ==
    LET traits == Join(<<",", " ">>, persona.traits)
        tendencies == Join(<<",", " ">>, persona.tendencies)
    IN  IF ~traits.ok THEN traits
        ELSE IF ~tendencies.ok THEN tendencies
        ELSE Return([traits |-> traits.value[1], tendencies |-> tendencies.value[1]])

\* the call of simulate_step(persona, step) gets as far as its request
Asks(persona, step) == get_client /\ StepPrompt(persona, step).ok

\* a failure of the response caught and turned into an automatic drop
simulate_step_swallow(persona, step, resp) ==
    LET prompt == StepPrompt(persona, step)
        r == IF resp.form = "raised" THEN Create(resp) ELSE EventFromContent(step, resp)
    IN  IF ~get_client THEN Raise("RuntimeError")
        ELSE IF ~prompt.ok THEN prompt
        ELSE IF r.ok THEN r
        ELSE Return([step_id |-> step.id, action |-> "drop", friction |-> 10,
                     reasoning |-> ""])

simulate_step(persona, step, resp) ==
    LET prompt == StepPrompt(persona, step)
        created == Create(resp)
    IN  IF ~get_client THEN Raise("RuntimeError")
        ELSE IF ~prompt.ok THEN prompt
        ELSE IF ~created.ok THEN created
        ELSE EventFromContent(step, created.value[1])

-----------------------------------------------------------------------------
(* simulator.py: simulate_persona_through_flow and summarize_runs.         *)

\* the loop without its break
Break_never(event) == FALSE

\* if event.action == "drop": ... break
Break(event) == event.action = "drop"

\* `converted` without the test of len(steps)
Converted_without_length(drop, flow) == drop = <<>>

\* converted = drop_step_id is None and len(steps) > 0
Converted(drop, flow) == drop = <<>> /\ Len(flow) > 0

Zero == [num |-> 0, den |-> 1]    \* the float 0.0

\* step_stats keyed by the steps that some event references
StatKeys_viewed(rs, flow) ==
    UNION {{rs[r].events[k].step_id : k \in 1..Len(rs[r].events)} : r \in 1..Len(rs)}

\* the keys of step_stats after `for step in steps: step_stats[step.id] = ...`
StatKeys(rs, flow) == {flow[k].id : k \in 1..Len(flow)}

InitialStepStats(rs, flow) ==
    [sid \in StatKeys(rs, flow) |->
        LET last == CHOOSE k \in 1..Len(flow) :
                        /\ flow[k].id = sid
                        /\ \A j \in 1..Len(flow) : flow[j].id = sid => j <= k
        IN  [name |-> flow[last].name, views |-> 0, drops |-> 0,
             friction_scores |-> <<>>]]

\* every event that is not a continue counted as a drop
RecordEvent_counts_hesitation(stats, e) ==
    IF e.step_id \notin DOMAIN stats THEN Raise("KeyError")
    ELSE Return([stats EXCEPT ![e.step_id] =
                    [@ EXCEPT !.views = @ + 1,
                              !.friction_scores = Append(@, e.friction),
                              !.drops = IF e.action # "continue" THEN @ + 1 ELSE @]])

\* the body of `for e in r.events`; step_stats[e.step_id] raises KeyError for
\* an id that is no key
RecordEvent(stats, e) ==
    IF e.step_id \notin DOMAIN stats THEN Raise("KeyError")
    ELSE Return([stats EXCEPT ![e.step_id] =
                    [@ EXCEPT !.views = @ + 1,
                              !.friction_scores = Append(@, e.friction),
                              !.drops = IF e.action = "drop" THEN @ + 1 ELSE @]])

\* `for e in r.events`, from the counts in `counted` (Return(stats) or a raise)
RECURSIVE RecordEvents(_, _)
RecordEvents(counted, evs) ==
    IF ~counted.ok \/ evs = <<>> THEN counted
    ELSE RecordEvents(RecordEvent(counted.value[1], Head(evs)), Tail(evs))

\* `for r in runs`
RECURSIVE RecordRuns(_, _)
RecordRuns(counted, rs) ==
    IF ~counted.ok \/ rs = <<>> THEN counted
    ELSE RecordRuns(RecordEvents(counted, Head(rs).events), Tail(rs))

RECURSIVE Sum(_)
Sum(xs) == IF xs = <<>> THEN 0 ELSE Head(xs) + Sum(Tail(xs))

RECURSIVE Gcd(_, _)
Gcd(a, b) == IF b = 0 THEN a ELSE Gcd(b, a % b)

\* the k with 2^k <= n / d < 2^(k+1), for n, d > 0
RECURSIVE FloorLog2(_, _)
FloorLog2(n, d) ==
    IF n < d THEN FloorLog2(2 * n, d) - 1
    ELSE IF n >= 2 * d THEN FloorLog2(n, 2 * d) + 1
    ELSE 0

\* (x * 2^e) % d
RECURSIVE ShiftMod(_, _, _)
ShiftMod(x, e, d) == IF e = 0 THEN x % d ELSE ShiftMod((2 * x) % d, e - 1, d)

\* The float n / d (the double nearest to the fraction n / d, n and d coprime,
\* d no power of 2) is above the fraction: the 53-bit significand is
\* n * 2^e / d rounded to the nearest integer, for the e that puts it in
\* 2^52 .. 2^53, and it is rounded up when the remainder is over half of d.
FloatIsAbove(n, d) == 2 * ShiftMod(n, 52 - FloorLog2(n, d), d) > d

\* round(total / views, 2), in hundredths, for total >= 0 and views > 0.
\* round() rounds the float total / views, not the fraction: when the
\* fraction is halfway between two hundredths, the float is exactly halfway
\* too only if it is a multiple of 1/8 (the tie then goes to the even
\* neighbour); otherwise the float lies above or below the fraction and
\* that decides.
Round2(total, views) ==
    LET q == (100 * total) \div views
        r == (100 * total) % views
        g == Gcd(total, views)
        n == total \div g
        d == views \div g
    IN  IF 2 * r > views THEN q + 1
        ELSE IF 2 * r < views THEN q
        ELSE IF 8 % d = 0 THEN (IF q % 2 = 1 THEN q + 1 ELSE q)
        ELSE IF FloatIsAbove(n, d) THEN q + 1 ELSE q

\* the body of `for sid, s in step_stats.items()`
Finalize(s) ==
    LET views == IF s.views # 0 THEN s.views ELSE 1
    IN  [name |-> s.name, views |-> s.views, drops |-> s.drops,
         friction_scores |-> s.friction_scores,
         avg_friction |-> IF s.friction_scores # <<>>
                          THEN [num |-> Round2(Sum(s.friction_scores), views), den |-> 100]
                          ELSE Zero,
         drop_rate |-> IF views # 0 THEN [num |-> s.drops, den |-> views] ELSE Zero]

\* next((st.name for st in steps if st.id == r.drop_step_id), None)
DropStepName(drop, flow) ==
    LET hits == {k \in 1..Len(flow) : <<flow[k].id>> = drop}
    IN  IF hits = {} THEN <<>>
        ELSE <<flow[CHOOSE k \in hits : \A j \in hits : k <= j].name>>

\* Return(the summary), or the KeyError of the event loop
summarize_runs(rs, flow) ==
    IF rs = <<>>
    THEN Return([conversion_rate |-> Zero, step_stats |-> <<>>, persona_summaries |-> <<>>])
    ELSE LET n == Len(rs)
             conversions == Cardinality({k \in 1..n : rs[k].converted})
             counted == RecordRuns(Return(InitialStepStats(rs, flow)), rs)
         IN  IF ~counted.ok THEN counted
             ELSE Return(
                 [conversion_rate |-> [num |-> conversions, den |-> n],
                  step_stats |-> [sid \in DOMAIN counted.value[1] |->
                                     Finalize(counted.value[1][sid])],
                  persona_summaries |->
                      [k \in 1..n |-> [name |-> rs[k].persona.name,
                                       converted |-> rs[k].converted,
                                       drop_step |-> DropStepName(rs[k].drop_step_id, flow)]]])

-----------------------------------------------------------------------------
(* Inputs.                                                                 *)

\* a numbered flow of n lines, like DEFAULT_FLOW_TEXT: "1. a - b\n2. a - b"
RECURSIVE FlowText(_)
FlowText(n) ==
    IF n = 0 THEN <<>>
    ELSE (IF n = 1 THEN <<>> ELSE FlowText(n - 1) \o <<"\n">>)
         \o Digits(n) \o <<".", " ", "a", " ", "-", " ", "b">>

Flows == {parse_flow(FlowText(n)) : n \in 0..MaxSteps}

\* persona dicts of a generation response: the first one is named and has
\* traits
PersonaDict(k) ==
    [t |-> "dict",
     name |-> IF k = 1 THEN <<<<"A", "n", "n">>>> ELSE <<>>,
     bio |-> IF k = 1 THEN <<"shopper">> ELSE <<>>,
     traits |-> IF k = 1 THEN <<ListOf(<<StrV(<<"c", "a", "l", "m">>), StrV(<<"b", "u", "s", "y">>)>>)>>
                ELSE <<>>,
     tendencies |-> <<>>]

\* an item of "personas" that is no dict but a value of type t
NotADict(t) == [t |-> t, name |-> <<>>, bio |-> <<>>, traits |-> <<>>, tendencies |-> <<>>]

\* a persona dict with these traits and tendencies
OddPersonaDict(traits, tendencies) ==
    [t |-> "dict", name |-> <<>>, bio |-> <<>>, traits |-> traits, tendencies |-> tendencies]

GenContent(n) ==
    Json([personas |-> <<ListOf([k \in 1..n |-> PersonaDict(k)])>>, extra |-> <<>>])

\* an integer literal one digit over the limit of int()
LongDigits == <<"1">> \o [k \in 1..MaxStrDigits |-> "1"]

\* traits and tendencies that are no list of strings: the first four are
\* joined all the same
OddTraits ==
    {<<<<CharsOf(<<"o", "k">>)>>, <<>>>>,
     <<<<>>, <<KeysOf(<<<<"k">>>>)>>>>,
     <<<<ListOf(<<>>)>>, <<CharsOf(<<>>)>>>>,
     <<<<KeysOf(<<>>)>>, <<ListOf(<<StrV(<<>>)>>)>>>>,
     <<<<ListOf(<<IntV(1), IntV(2)>>)>>, <<>>>>,
     <<<<ListOf(<<StrV(<<"a">>), NullV>>)>>, <<>>>>,
     <<<<NotIterable("null")>>, <<>>>>,
     <<<<>>, <<NotIterable("int")>>>>,
     <<<<>>, <<ListOf(<<ListV>>)>>>>,
     <<<<NotIterable("bool")>>, <<NotIterable("float")>>>>}

\* generation responses whose "personas" is no list of dicts, and one with
\* too long an integer literal among a persona's traits
OddGenContents ==
    {Json([personas |-> <<ps>>, extra |-> <<>>]) :
        ps \in {NotIterable("null"), NotIterable("int"), NotIterable("float"),
                NotIterable("bool"), CharsOf(<<>>), KeysOf(<<>>),
                Iter("str", <<NotADict("str")>>), Iter("dict", <<NotADict("str")>>),
                ListOf(<<NotADict("int")>>), ListOf(<<PersonaDict(1), NotADict("null")>>),
                ListOf(<<NotADict("list"), PersonaDict(1)>>)}}
        \cup {Json([personas |->
                        <<ListOf(<<OddPersonaDict(<<ListOf(<<IntLit(LongDigits)>>)>>, <<>>)>>)>>,
                    extra |-> <<>>])}

\* the responses to the generation request of the page (Spec): it fails, the
\* text is no JSON (a syntax error or too deep a nesting, met after too long
\* a literal or not), it has no "personas", "personas" is no list of dicts,
\* a persona's traits are numbers, and batches of 0..MaxPersonas
GenContents ==
    {RequestFails, Unparseable, TooDeep,
     Malformed(<<IntLit(LongDigits)>>), TooDeepAfter(<<IntLit(LongDigits)>>),
     Json([personas |-> <<>>, extra |-> <<>>]),
     Json([personas |-> <<ListOf(<<PersonaDict(1)>>)>>, extra |-> <<IntLit(LongDigits)>>]),
     Json([personas |-> <<ListOf(<<PersonaDict(1),
                                   OddPersonaDict(<<ListOf(<<IntV(1), IntV(2)>>)>>, <<>>)>>)>>,
           extra |-> <<>>])}
        \cup OddGenContents
        \cup {GenContent(n) : n \in 0..MaxPersonas}

\* the batches of 0..MaxPersonas personas, and one whose second persona has
\* numbers for traits
Batches ==
    {PersonasFromContent(GenContent(n)).value[1] : n \in 0..MaxPersonas}
        \cup {PersonasFromContent(
                  Json([personas |-> <<ListOf(<<PersonaDict(1),
                                       OddPersonaDict(<<ListOf(<<IntV(1), IntV(2)>>)>>, <<>>)>>)>>,
                        extra |-> <<>>])).value[1]}

\* the persona of every response with odd traits: generate_personas returns
\* it unchecked (SpecStep)
OddBatches ==
    {PersonasFromContent(
         Json([personas |-> <<ListOf(<<OddPersonaDict(odd[1], odd[2])>>)>>,
               extra |-> <<>>])).value[1] : odd \in OddTraits}

ActionValues == {"continue", "hesitate", "drop", "DROP", "quit"}

FrictionValues ==
    {IntV(n) : n \in (0 - RawFrictionSpan)..RawFrictionSpan}
        \cup {IntLit(LongDigits), IntLit(<<"-">> \o LongDigits)}
        \cup {FloatV(t) : t \in {-5, 79, 125}}
        \cup {NaNV, InfV}
        \cup {StrV(s) : s \in {<<"7">>, <<"1", "5">>, <<"-", "3">>, <<" ", "8", " ">>,
                               <<"h", "i", "g", "h">>, <<"7", ".", "5">>, <<>>,
                               <<"1", "_", "5">>, <<"1", "_">>, <<"\f", "7">>,
                               <<"U+001C", "7">>, <<"U+0663">>, <<"U+06F3">>,
                               <<"U+0967", "U+0968">>, <<"+", " ", "1">>,
                               <<"1", "_", "_", "5">>, LongDigits}}
        \cup {BoolV(TRUE), NullV, ListV}

Optional(S) == {<<>>} \cup {<<x>> : x \in S}

\* every decision payload over the values above, and some with a member the
\* code does not read (SpecStep)
DecisionContents ==
    {RequestFails, Unparseable, TooDeep,
     Malformed(<<IntLit(LongDigits)>>), Malformed(<<IntV(1)>>),
     TooDeepAfter(<<IntLit(LongDigits)>>), TooDeepAfter(<<IntV(1)>>)}
        \cup {Json(d) : d \in [action : Optional(ActionValues),
                               friction : Optional(FrictionValues),
                               reasoning : Optional({"too long"}),
                               extra : {<<>>}]}
        \cup {Json(d) : d \in [action : Optional({"drop"}),
                               friction : {<<>>, <<IntV(7)>>, <<StrV(<<"x">>)>>},
                               reasoning : {<<>>},
                               extra : {<<IntV(1)>>, <<IntLit(LongDigits)>>}]}

\* the decision payloads the traversals of any flow and batch draw from
\* (SpecLib)
TraversalContents ==
    {Unparseable,
     Json([action |-> <<"continue">>, friction |-> <<IntV(15)>>, reasoning |-> <<"ok">>,
           extra |-> <<>>]),
     Json([action |-> <<"hesitate">>, friction |-> <<>>, reasoning |-> <<>>,
           extra |-> <<>>]),
     Json([action |-> <<"drop">>, friction |-> <<IntV(7)>>, reasoning |-> <<"no">>,
           extra |-> <<>>]),
     Json([action |-> <<"DROP">>, friction |-> <<IntV(-3)>>, reasoning |-> <<>>,
           extra |-> <<>>]),
     Json([action |-> <<>>, friction |-> <<StrV(<<"h", "i", "g", "h">>)>>,
           reasoning |-> <<>>, extra |-> <<>>])}

\* what the decision requests of the page come back with: an event that goes
\* on, an event that drops, and each way the call raises (Spec)
PageContents ==
    {RequestFails,
     Unparseable,
     TooDeep,
     Malformed(<<IntLit(LongDigits)>>),
     Json([action |-> <<"continue">>, friction |-> <<IntV(15)>>, reasoning |-> <<"ok">>,
           extra |-> <<>>]),
     Json([action |-> <<"drop">>, friction |-> <<IntV(7)>>, reasoning |-> <<"no">>,
           extra |-> <<>>]),
     Json([action |-> <<>>, friction |-> <<StrV(<<"h", "i", "g", "h">>)>>,
           reasoning |-> <<>>, extra |-> <<>>]),
     Json([action |-> <<"continue">>, friction |-> <<IntV(3)>>, reasoning |-> <<>>,
           extra |-> <<IntLit(LongDigits)>>])}

\* the decision payloads of one traversal: every raw integer friction of the
\* span under a drop, three of them under a continue, a literal over the
\* limit, and a response that is no JSON (SpecRun)
RunContents ==
    {Unparseable}
        \cup {Json([action |-> <<"drop">>, friction |-> <<f>>, reasoning |-> <<>>,
                    extra |-> <<>>]) :
                 f \in {IntV(n) : n \in (0 - RawFrictionSpan)..RawFrictionSpan}
                          \cup {IntLit(LongDigits)}}
        \cup {Json([action |-> <<>>, friction |-> <<IntV(n)>>, reasoning |-> <<>>,
                    extra |-> <<>>]) : n \in {-3, 7, 15}}

\* an entry of `requests`: a request and what it came back with
Request(kind, persona, step, resp) ==
    [kind |-> kind, persona |-> persona, step |-> step, content |-> resp]

\* `content` when no request of simulate_step has been answered
NoCall == [form |-> "none", data |-> <<[extra |-> <<>>]>>]

-----------------------------------------------------------------------------
(* SpecParse: the text area and the "Parse flow" button.                   *)

Alphabet == {"1", " ", "-", "a", "\n"}

InitParse ==
    /\ pc = "typing"
    /\ api_key = TRUE
    /\ flow_text = <<>>
    /\ steps = <<>>
    /\ personas = <<>>
    /\ p = 1
    /\ i = 1
    /\ events = <<>>
    /\ drop_step_id = <<>>
    /\ runs = <<>>
    /\ summary = <<>>
    /\ requests = <<>>
    /\ content = NoCall
    /\ outcome = <<>>

TypeChar ==
    /\ pc = "typing"
    /\ Len(flow_text) < MaxTextLen
    /\ \E c \in Alphabet : flow_text' = Append(flow_text, c)
    /\ UNCHANGED <<pc, api_key, steps, personas, p, i, events, drop_step_id,
                   runs, summary, requests, content, outcome>>

\* if st.button("Parse flow"): st.session_state.steps = parse_flow(flow_text)
ParseTyped ==
    /\ pc = "typing"
    /\ steps' = parse_flow(flow_text)
    /\ pc' = "parsed"
    /\ UNCHANGED <<api_key, flow_text, personas, p, i, events, drop_step_id,
                   runs, summary, requests, content, outcome>>

NextParse == TypeChar \/ ParseTyped

SpecParse == InitParse /\ [][NextParse]_vars

-----------------------------------------------------------------------------
(* SpecStep: one call of simulate_step on every payload.                   *)

InitStep ==
    /\ pc = "step_call"
    /\ api_key \in BOOLEAN
    /\ flow_text = FlowText(MaxSteps)
    /\ steps = parse_flow(flow_text)
    /\ personas \in (Batches \cup OddBatches) \ {<<>>}
    /\ p \in 1..Len(personas)
    /\ i \in 1..Len(steps)
    /\ events = <<>>
    /\ drop_step_id = <<>>
    /\ runs = <<>>
    /\ summary = <<>>
    /\ requests = <<>>
    /\ content \in DecisionContents
    /\ outcome = <<>>

\* `content` is what the request of the call comes back with, if it is made
CallSimulateStep ==
    /\ pc = "step_call"
    /\ outcome' = <<simulate_step(personas[p], steps[i], content)>>
    /\ requests' = IF Asks(personas[p], steps[i])
                   THEN <<Request("decide", <<personas[p].id>>, <<steps[i].id>>, content)>>
                   ELSE requests
    /\ pc' = "step_done"
    /\ UNCHANGED <<api_key, flow_text, steps, personas, p, i, events, drop_step_id,
                   runs, summary, content>>

NextStep == CallSimulateStep

SpecStep == InitStep /\ [][NextStep]_vars

-----------------------------------------------------------------------------
(* The traversal loop: app.py lines 80-86 around                           *)
(* simulate_persona_through_flow.  One action per external call.           *)

\* the run put at the front of the list
Collect_front(rs, run) == <<run>> \o rs

\* runs.append(run)
Collect(rs, run) == Append(rs, run)

\* one turn of `for step in steps`: the call of simulate_step, answered by
\* one of the responses resps, and what follows
StepTurn(resps) ==
    /\ pc = "simulating"
    /\ p <= Len(personas)
    /\ i <= Len(steps)
    /\ drop_step_id = <<>>
    /\ \E resp \in resps :
          LET r == simulate_step(personas[p], steps[i], resp)
              asks == Asks(personas[p], steps[i])
          IN  /\ content' = IF asks THEN resp ELSE NoCall
              /\ outcome' = <<r>>
              /\ requests' = IF asks
                             THEN Append(requests,
                                         Request("decide", <<personas[p].id>>,
                                                 <<steps[i].id>>, resp))
                             ELSE requests
              /\ IF r.ok
                 THEN /\ events' = Append(events, r.value[1])
                      /\ IF Break(r.value[1])
                         THEN drop_step_id' = <<steps[i].id>> /\ i' = i
                         ELSE drop_step_id' = drop_step_id /\ i' = i + 1
                      /\ pc' = pc
                 ELSE /\ pc' = "failed"
                      /\ UNCHANGED <<events, drop_step_id, i>>
    /\ UNCHANGED <<api_key, flow_text, steps, personas, p, runs, summary>>

SimulateStep == StepTurn(TraversalContents)

SimulateStepOfPage == StepTurn(PageContents)

\* the loop is over: simulate_persona_through_flow returns, the run is collected
ReturnRun ==
    /\ pc = "simulating"
    /\ p <= Len(personas)
    /\ i > Len(steps) \/ drop_step_id # <<>>
    /\ runs' = Collect(runs, [persona |-> personas[p],
                              events |-> events,
                              converted |-> Converted(drop_step_id, steps),
                              drop_step_id |-> drop_step_id])
    /\ p' = p + 1
    /\ i' = 1
    /\ events' = <<>>
    /\ drop_step_id' = <<>>
    /\ content' = NoCall
    /\ outcome' = <<>>
    /\ UNCHANGED <<pc, api_key, flow_text, steps, personas, summary, requests>>

\* summary = summarize_runs(runs, steps)
Summarize ==
    /\ pc = "simulating"
    /\ p > Len(personas)
    /\ LET r == summarize_runs(runs, steps)
       IN  IF r.ok
           THEN summary' = r.value /\ pc' = "done"
           ELSE summary' = summary /\ pc' = "failed"
    /\ UNCHANGED <<api_key, flow_text, steps, personas, p, i, events, drop_step_id,
                   runs, requests, content, outcome>>

-----------------------------------------------------------------------------
(* Spec: the page of app.py.  A click or a changed widget reruns the       *)
(* script, so the names the script binds start afresh;                     *)
(* st.session_state.steps is kept.                                         *)

AtPage == pc \in {"idle", "error", "done", "failed"}

Fresh ==
    /\ p' = 1
    /\ i' = 1
    /\ events' = <<>>
    /\ drop_step_id' = <<>>
    /\ runs' = <<>>
    /\ summary' = <<>>

Init ==
    /\ pc = "idle"
    /\ api_key \in BOOLEAN
    /\ flow_text = FlowText(MaxSteps)
    /\ steps = <<>>
    /\ personas = <<>>
    /\ p = 1
    /\ i = 1
    /\ events = <<>>
    /\ drop_step_id = <<>>
    /\ runs = <<>>
    /\ summary = <<>>
    /\ requests = <<>>
    /\ content = NoCall
    /\ outcome = <<>>

\* the slider moved: the script reruns with no button clicked, the text and
\* st.session_state.steps stay as they were.  The slider's value reaches
\* the prompt of generate_personas only; these are its least, its initial
\* and its greatest value.
SliderValues == {3, 5, 15}

MoveSlider ==
    /\ AtPage
    /\ \E num_personas \in SliderValues :
          /\ pc' = "idle"
          /\ Fresh
          /\ personas' = <<>>
          /\ requests' = <<>>
          /\ content' = NoCall
          /\ outcome' = <<>>
    /\ UNCHANGED <<api_key, flow_text, steps>>

\* the text area edited: the script reruns with no button clicked, and
\* st.session_state.steps stays as it was
EditFlow ==
    /\ AtPage
    /\ \E n \in 0..MaxSteps : flow_text' = FlowText(n) /\ flow_text' # flow_text
    /\ pc' = "idle"
    /\ Fresh
    /\ personas' = <<>>
    /\ requests' = <<>>
    /\ content' = NoCall
    /\ outcome' = <<>>
    /\ UNCHANGED <<api_key, steps>>

\* the "Parse flow" button: st.session_state.steps = parse_flow(flow_text)
ParseFlow ==
    /\ AtPage
    /\ steps' = parse_flow(flow_text)
    /\ pc' = "idle"
    /\ Fresh
    /\ personas' = <<>>
    /\ requests' = <<>>
    /\ content' = NoCall
    /\ outcome' = <<>>
    /\ UNCHANGED <<api_key, flow_text>>

\* the "Generate personas and simulate" button with no parsed flow
SimulateWithoutFlow ==
    /\ AtPage
    /\ steps = <<>>
    /\ pc' = "error"
    /\ Fresh
    /\ personas' = <<>>
    /\ requests' = <<>>
    /\ content' = NoCall
    /\ outcome' = <<>>
    /\ UNCHANGED <<api_key, flow_text, steps>>

\* "\n".join(f"{s.name}: {s.description}" for s in steps)
RECURSIVE FlowDescription(_)
FlowDescription(flow) ==
    IF flow = <<>> THEN <<>>
    ELSE LET rest == FlowDescription(SubSeq(flow, 1, Len(flow) - 1))
             s == flow[Len(flow)]
         IN  (IF rest = <<>> THEN <<>> ELSE rest \o <<"\n">>)
                 \o s.name \o <<":", " ">> \o s.description

\* the same button with a flow: generate_personas, then the loop starts
GeneratePersonas ==
    /\ AtPage
    /\ steps # <<>>
    /\ \E resp \in GenContents, num_personas \in SliderValues :
          LET r == generate_personas(FlowDescription(steps), num_personas, resp)
          IN  /\ requests' = IF get_client
                             THEN <<Request("generate", <<>>, <<>>, resp)>>
                             ELSE <<>>
              /\ Fresh
              /\ IF r.ok
                 THEN pc' = "simulating" /\ personas' = r.value[1]
                 ELSE pc' = "failed" /\ personas' = <<>>
    /\ content' = NoCall
    /\ outcome' = <<>>
    /\ UNCHANGED <<api_key, flow_text, steps>>

Next ==
    \/ MoveSlider
    \/ EditFlow
    \/ ParseFlow
    \/ SimulateWithoutFlow
    \/ GeneratePersonas
    \/ SimulateStepOfPage
    \/ ReturnRun
    \/ Summarize

Spec == Init /\ [][Next]_vars

-----------------------------------------------------------------------------
(* SpecLib: the same loop called on any flow (the empty one too) and any   *)
(* batch of personas.                                                      *)

InitLib ==
    /\ pc = "simulating"
    /\ api_key \in BOOLEAN
    /\ \E n \in 0..MaxSteps : flow_text = FlowText(n)
    /\ steps = parse_flow(flow_text)
    /\ personas \in Batches
    /\ p = 1
    /\ i = 1
    /\ events = <<>>
    /\ drop_step_id = <<>>
    /\ runs = <<>>
    /\ summary = <<>>
    /\ requests = <<>>
    /\ content = NoCall
    /\ outcome = <<>>

NextLib == SimulateStep \/ ReturnRun \/ Summarize

SpecLib == InitLib /\ [][NextLib]_vars

-----------------------------------------------------------------------------
(* SpecRun: one call of simulate_persona_through_flow, its decisions       *)
(* answered with every raw integer friction.                               *)

InitRun ==
    /\ pc = "simulating"
    /\ api_key \in BOOLEAN
    /\ \E n \in 0..MaxSteps : flow_text = FlowText(n)
    /\ steps = parse_flow(flow_text)
    /\ personas = PersonasFromContent(GenContent(1)).value[1]
    /\ p = 1
    /\ i = 1
    /\ events = <<>>
    /\ drop_step_id = <<>>
    /\ runs = <<>>
    /\ summary = <<>>
    /\ requests = <<>>
    /\ content = NoCall
    /\ outcome = <<>>

SimulateAnyStep == StepTurn(RunContents)

NextRun == SimulateAnyStep \/ ReturnRun

SpecRun == InitRun /\ [][NextRun]_vars

-----------------------------------------------------------------------------
(* Properties.                                                             *)

EnumActions == {"continue", "hesitate", "drop"}

\* evs are the events of the first Len(evs) steps, in order, and none but the
\* last one is a drop
FollowsSteps(evs) ==
    /\ Len(evs) <= Len(steps)
    /\ \A k \in 1..Len(evs) : evs[k].step_id = steps[k].id
    /\ \A k \in 1..(Len(evs) - 1) : evs[k].action # "drop"

EndsInDrop(evs) == evs # <<>> /\ evs[Len(evs)].action = "drop"

NoDrop(evs) == \A k \in 1..Len(evs) : evs[k].action # "drop"

\* C1: the traversal evaluates the steps in order and stops at, and includes,
\* the first drop event: the events of the traversal under way and of every
\* finished run are those of a prefix of the steps (event k is step k's), at
\* most len(steps) of them, no event follows a drop, and a finished run that
\* is shorter than the flow ends in a drop.
C1_StopsAtFirstDrop ==
    /\ FollowsSteps(events)
    /\ \A k \in 1..Len(runs) :
          /\ FollowsSteps(runs[k].events)
          /\ Len(runs[k].events) = Len(steps) \/ EndsInDrop(runs[k].events)

\* a finished run that dropped before the last step, next to one that went on
\* past a hesitation
C1_Witness ==
    /\ \E k \in 1..Len(runs) :
          EndsInDrop(runs[k].events) /\ Len(runs[k].events) < Len(steps)
    /\ \E k \in 1..Len(runs) :
          Len(runs[k].events) = 2 /\ runs[k].events[1].action = "hesitate"

\* C2: a run is converted exactly when none of its events is a drop and it has
\* as many events as the flow has steps, more than zero; a run over the empty
\* flow has no events, is not converted and records no drop step.
C2_ConvertedIff ==
    \A k \in 1..Len(runs) :
        /\ runs[k].converted <=>
              (NoDrop(runs[k].events) /\ Len(runs[k].events) = Len(steps) /\ Len(steps) > 0)
        /\ steps = <<>> =>
              (runs[k].events = <<>> /\ ~runs[k].converted /\ runs[k].drop_step_id = <<>>)

\* a converted run and a run that dropped at the very last step
C2_Witness ==
    /\ \E k \in 1..Len(runs) : runs[k].converted /\ Len(runs[k].events) = Len(steps)
    /\ \E k \in 1..Len(runs) :
          /\ ~runs[k].converted
          /\ Len(runs[k].events) = Len(steps)
          /\ runs[k].drop_step_id = <<steps[Len(steps)].id>>

\* the integer literal v has more digits than int() converts
LongLiteral(v) ==
    v.t = "int" /\ Cardinality({k \in 1..Len(v.s) : v.s[k] # "-"}) > MaxStrDigits

\* the request comes back with nothing json.loads turns into a dict: it
\* raised, or the text is no JSON, is nested too deep, or holds too long an
\* integer literal
ParseFailure(resp) ==
    \/ resp.form # "object"
    \/ \E v \in Members(resp.data[1]) : LongLiteral(v)

\* s is an integer numeral: between whitespace, an optional sign and then
\* decimal digits, where an underscore may stand between two digits
IntegerNumeral(s) ==
    \E a \in 1..Len(s) :
        /\ \A k \in 1..(a - 1) : s[k] \in IntWhitespace
        /\ \E b \in a..Len(s) :
              /\ \A k \in (b + 1)..Len(s) : s[k] \in IntWhitespace
              /\ LET first == IF s[a] \in {"+", "-"} THEN a + 1 ELSE a
                 IN  /\ first <= b
                     /\ \A k \in first..b :
                           \/ IsDigit(s[k])
                           \/ /\ s[k] = "_"
                              /\ first < k /\ k < b
                              /\ IsDigit(s[k - 1]) /\ IsDigit(s[k + 1])

\* a friction value that is no number: null, an array or an object, or a
\* string that is no integer numeral
NonNumeric(v) ==
    \/ v.t \in {"null", "list"}
    \/ v.t = "str" /\ ~IntegerNumeral(v.s)

\* the error of int() on a friction value it does not convert (<<>>: it
\* converts the value)
IntError(v) ==
    IF v.t \in {"null", "list"} THEN <<"TypeError">>
    ELSE IF v.t = "inf" THEN <<"OverflowError">>
    ELSE IF v.t = "nan" THEN <<"ValueError">>
    ELSE IF v.t = "str" /\ ~IntegerNumeral(v.s) THEN <<"ValueError">>
    ELSE IF v.t = "str" /\ Cardinality({k \in 1..Len(v.s) : IsDigit(v.s[k])}) > MaxStrDigits
         THEN <<"ValueError">>
    ELSE <<>>

\* the content of this request makes the call that issued it raise
CallFails(req) ==
    \/ ParseFailure(req.content)
    \/ /\ req.kind = "decide"
       /\ req.content.data[1].friction # <<>>
       /\ IntError(req.content.data[1].friction[1]) # <<>>

\* ", ".join(v) gives a string: v is a list of strings, a string or a dict
Joinable(v) ==
    /\ v.t \in {"list", "str", "dict"}
    /\ \A k \in 1..Len(v.items) : v.items[k].t = "str"

\* simulate_step can build its prompt for the persona
PromptBuilds(persona) == Joinable(persona.traits) /\ Joinable(persona.tendencies)

\* C3: a failed external call aborts the simulate action: it is the last
\* request made, the script has stopped with the failure, no summary exists,
\* and for a failed decision no event was recorded for that step and no run
\* was produced for that persona or a later one.  Without an API key no
\* request is made at all and nothing is simulated or summarized.  The same
\* holds of a call of simulate_step that raises for any reason, before its
\* request too: a persona whose traits or tendencies cannot be joined gets
\* no request, no event and no run.
C3_FailureAborts ==
    /\ pc = "failed" => summary = <<>>
    /\ (outcome # <<>> /\ ~outcome[1].ok) =>
          /\ pc = "failed"
          /\ summary = <<>>
          /\ outcome[1].value = <<>>
          /\ Len(events) = i - 1
          /\ Len(runs) = p - 1
    /\ \A k \in 1..Len(personas) :
          ~PromptBuilds(personas[k]) =>
              /\ Len(runs) < k
              /\ p = k => events = <<>>
              /\ \A j \in 1..Len(requests) : requests[j].persona # <<personas[k].id>>
              /\ summary = <<>>
    /\ ~api_key =>
          /\ pc \notin {"simulating", "done"}
          /\ requests = <<>> /\ events = <<>> /\ runs = <<>> /\ summary = <<>>
    /\ \A k \in 1..Len(requests) :
          CallFails(requests[k]) =>
              /\ k = Len(requests)
              /\ pc = "failed"
              /\ summary = <<>>
              /\ requests[k].kind = "decide" =>
                    /\ \A j \in 1..Len(events) : events[j].step_id # requests[k].step[1]
                    /\ \A j \in 1..Len(runs) : runs[j].persona.id < requests[k].persona[1]
                    /\ Len(runs) < Len(personas)

\* json.loads refuses the decision of the second step of the second persona,
\* a JSON object with too long an integer literal
C3_Witness ==
    /\ pc = "failed"
    /\ Len(runs) = 1
    /\ Len(events) = 1
    /\ requests # <<>>
    /\ requests[Len(requests)].kind = "decide"
    /\ requests[Len(requests)].content.form = "object"
    /\ ParseFailure(requests[Len(requests)].content)

\* every event of the traversal under way and of every run has friction 1..10
FrictionInRange ==
    /\ \A k \in 1..Len(events) : events[k].friction \in 1..10
    /\ \A r \in 1..Len(runs) :
          \A k \in 1..Len(runs[r].events) : runs[r].events[k].friction \in 1..10

\* the integer literal raw is stored as `stored`: 10 for one above 10, 1 for
\* one below 1, itself otherwise
StoredAs(raw, stored) ==
    \E n \in (0 - RawFrictionSpan)..RawFrictionSpan :
        /\ raw = IntV(n)
        /\ stored = (IF n > 10 THEN 10 ELSE IF n < 1 THEN 1 ELSE n)

\* the call under way was made with a client and answered by a JSON object
\* whose friction is an integer
IntegerFrictionCall ==
    /\ outcome # <<>>
    /\ get_client
    /\ content.form = "object"
    /\ content.data[1].friction # <<>>
    /\ content.data[1].friction[1].t = "int"

C5_Original ==
    (/\ outcome # <<>>
     /\ requests # <<>>
     /\ ~ParseFailure(content)
     /\ content.data[1].friction = <<>> \/ NonNumeric(content.data[1].friction[1]))
        => (outcome[1].ok /\ outcome[1].value[1].friction = 5)

\* C5 amended: when the decision request is answered and json.loads turns
\* the payload into a dict, a missing friction key gives a StepEvent with
\* friction 5; a friction that int() does not convert (null, an array or an
\* object: TypeError; a string that is no integer numeral or has more than
\* MaxStrDigits digits, or NaN: ValueError; an infinite number:
\* OverflowError) makes simulate_step raise that error and gives no
\* StepEvent; any other friction gives a StepEvent.  When the request or
\* json.loads raises there is no StepEvent, with or without a friction key;
\* and a call that makes no request (no API key, or traits or tendencies
\* that cannot be joined) has no payload and gives no StepEvent.
C5_MissingDefaultsNonNumericRaises ==
    (outcome # <<>>) =>
        IF requests = <<>>
        THEN /\ ~outcome[1].ok /\ outcome[1].value = <<>>
             /\ ~get_client \/ ~PromptBuilds(personas[p])
        ELSE IF ParseFailure(content)
        THEN ~outcome[1].ok /\ outcome[1].value = <<>>
        ELSE IF content.data[1].friction = <<>>
        THEN outcome[1].ok /\ outcome[1].value[1].friction = 5
        ELSE LET error == IntError(content.data[1].friction[1])
             IN  IF error # <<>>
                 THEN /\ ~outcome[1].ok
                      /\ outcome[1].value = <<>>
                      /\ <<outcome[1].error>> = error
                 ELSE outcome[1].ok /\ outcome[1].value[1].friction \in 1..10

\* the payload {"action": "hesitate"} answered by an event of friction 5
C5_Witness ==
    /\ outcome # <<>> /\ outcome[1].ok
    /\ content.form = "object"
    /\ content.data[1].friction = <<>>
    /\ content.data[1].action = <<"hesitate">>
    /\ outcome[1].value[1].friction = 5
    /\ outcome[1].value[1].action = "hesitate"

\* C6 as stated: the action of every event of simulate_step is one of
\* continue, hesitate and drop, whatever action the payload carries.
C6_ActionInEnum ==
    (outcome # <<>> /\ outcome[1].ok) => outcome[1].value[1].action \in EnumActions

\* the places of all events of all runs
EventSlots == {<<r, k>> \in (1..Len(runs)) \X (1..(MaxSteps + 1)) : k <= Len(runs[r].events)}

SlotsOf(sid) == {sl \in EventSlots : runs[sl[1]].events[sl[2]].step_id = sid}

DropSlotsOf(sid) == {sl \in SlotsOf(sid) : runs[sl[1]].events[sl[2]].action = "drop"}

\* step_stats has an entry for every step, and zeros for a step no event references
EveryStepPresent ==
    LET stats == summary[1].step_stats
    IN  /\ DOMAIN stats = {steps[k].id : k \in 1..Len(steps)}
        /\ \A sid \in DOMAIN stats :
              SlotsOf(sid) = {} =>
                  /\ stats[sid].views = 0
                  /\ stats[sid].drops = 0
                  /\ stats[sid].drop_rate.num = 0
                  /\ stats[sid].avg_friction.num = 0

\* C7 as stated: for every collection of runs, the empty one too, step_stats
\* has an entry for every step of the flow.
C7_Original == summary # <<>> => EveryStepPresent

\* C7 amended: for every non-empty collection of runs step_stats has an entry
\* for every step of the flow, with views 0, drops 0, drop_rate 0.0 and
\* avg_friction 0.0 for a step no event references; for the empty collection
\* step_stats is empty.
C7_EveryStepPresentUnlessNoRuns ==
    summary # <<>> =>
        IF runs # <<>> THEN EveryStepPresent ELSE DOMAIN summary[1].step_stats = {}

\* every persona dropped at the first step of a longer flow
C7_Witness ==
    /\ summary # <<>>
    /\ runs # <<>>
    /\ \E k \in 1..Len(steps) :
          SlotsOf(steps[k].id) = {} /\ summary[1].step_stats[steps[k].id].views = 0

RECURSIVE TotalViews(_, _)
TotalViews(stats, flow) ==
    IF flow = <<>> THEN 0 ELSE stats[Head(flow).id].views + TotalViews(stats, Tail(flow))

\* C8: over a non-empty collection of runs, the views of a step are the events
\* with its step_id, its drops those of them whose action is drop, its
\* drop_rate drops/views (0.0 without views), and the views of all steps add
\* up to the number of events.
C8_ViewsAndDrops ==
    (summary # <<>> /\ runs # <<>>) =>
        LET stats == summary[1].step_stats
        IN  /\ \A j \in 1..Len(steps) :
                  LET st == stats[steps[j].id]
                      views == Cardinality(SlotsOf(steps[j].id))
                      drops == Cardinality(DropSlotsOf(steps[j].id))
                  IN  /\ st.views = views
                      /\ st.drops = drops
                      /\ st.drop_rate.den > 0
                      /\ IF views > 0
                         THEN st.drop_rate.num * views = drops * st.drop_rate.den
                         ELSE st.drop_rate.num = 0
            /\ TotalViews(stats, steps) = Cardinality(EventSlots)

\* a step seen twice with one drop and one hesitation
C8_Witness ==
    /\ summary # <<>>
    /\ runs # <<>>
    /\ \E k \in 1..Len(steps) :
          LET st == summary[1].step_stats[steps[k].id]
          IN  /\ st.views = 2
              /\ st.drops = 1
              /\ \E sl \in SlotsOf(steps[k].id) :
                    runs[sl[1]].events[sl[2]].action = "hesitate"

\* C9 as stated, for the stripped non-blank lines that contain " - ": the name
\* is the text before the first " - " without its leading digits, periods and
\* spaces (and surrounding whitespace), the description the text after it,
\* stripped.  A name that would be empty may be the synthesized "Step {i+1}".
C9_NameKeepsItsTail ==
    pc = "parsed" =>
        LET lines == FlowLines(flow_text)
        IN  /\ Len(steps) = Len(lines)
            /\ \A k \in 1..Len(lines) :
                  Find(lines[k], Separator) # 0 =>
                      LET parts == SplitOnce(lines[k], Separator)
                          name == Strip(LStrip(parts[1], NumberingChars), Whitespace)
                      IN  /\ steps[k].name = name
                             \/ (name = <<>> /\ steps[k].name = StepLabel(k - 1))
                          /\ steps[k].description = Strip(parts[2], Whitespace)

\* the position of a request's persona in `personas`
PersonaIndex(req) == req.persona[1] + 1

\* C10: the requests of a simulate action are the persona generation first,
\* then one decision per (persona, step) reached, persona after persona in
\* input order and step after step within a persona; a persona's first request
\* comes only after the run of the persona before it was collected, converted
\* or dropped; and the runs are collected in persona input order.
C10_RequestsInOrder ==
    /\ \A k \in 1..Len(requests) : (requests[k].kind = "generate") <=> (k = 1)
    /\ \A k \in 2..Len(requests) :
          LET q == requests[k]
              n == PersonaIndex(q)
          IN  /\ n \in 1..Len(personas) /\ personas[n].id = q.persona[1]
              /\ IF k = 2
                 THEN n = 1 /\ q.step = <<steps[1].id>>
                 ELSE LET before == requests[k - 1]
                      IN  \/ /\ q.persona = before.persona
                             /\ \E j \in 1..(Len(steps) - 1) :
                                   before.step = <<steps[j].id>> /\ q.step = <<steps[j + 1].id>>
                          \/ /\ n = PersonaIndex(before) + 1
                             /\ q.step = <<steps[1].id>>
              /\ \A m \in 1..(n - 1) :
                    /\ m <= Len(runs)
                    /\ runs[m].converted \/ runs[m].drop_step_id # <<>>
    /\ \A k, l \in 2..Len(requests) :
          (k # l) => <<requests[k].persona, requests[k].step>>
                        # <<requests[l].persona, requests[l].step>>
    /\ Len(runs) <= Len(personas)
    /\ \A k \in 1..Len(runs) : runs[k].persona = personas[k]

\* two personas simulated, the first through both steps
C10_Witness ==
    /\ pc = "done"
    /\ Len(runs) = 2
    /\ Len(requests) >= 4
    /\ requests[2].persona = requests[3].persona
    /\ requests[4].persona # requests[3].persona

=============================================================================
